---- MODULE Spec2Model ----
(***************************************************************************)
(* Model of uuidmap::Table<T> (src/src/lib.rs): a dense vector of values   *)
(* `data`, a parallel vector of keys `reverse`, and a hash map `map` from  *)
(* key to the slot of the key's value.  Slots are 0-based as in the code;  *)
(* TLA+ sequences are 1-based, so slot i of a vector s is s[i + 1].        *)
(*                                                                         *)
(* Keys are u128 in the code.  The code only hashes and compares them, so  *)
(* a small set of keys stands for the key space; values are opaque (T).    *)
(***************************************************************************)
EXTENDS Integers, Sequences, FiniteSets, TLC

\* Size of the key space and of the value space explored.
NumKeys == 3
NumValues == 2

Keys == 1..NumKeys
Values == 1..NumValues

VARIABLES
    map,        \* Table.map     : key -> slot
    data,       \* Table.data    : Vec<T>
    reverse,    \* Table.reverse : Vec<u128>
    panicked,   \* a call panicked or crashed; the program has stopped
    refmap,     \* reference key -> value map run side by side
    pre,        \* the table just before the last call
    op,         \* the last call: name, arguments, result
    run         \* log of a run of distinct-key insertions and removes

vars == <<map, data, reverse, panicked, refmap, pre, op, run>>

\* The table as one value (the struct).
self == [map |-> map, data |-> data, reverse |-> reverse]

----------------------------------------------------------------------------
\* Results of calls.

None == [tag |-> "None"]
Some(v) == [tag |-> "Some", val |-> v]
Unit == [tag |-> "Unit"]
Panic == [tag |-> "Panic"]

----------------------------------------------------------------------------
\* std collections, as the code uses them.

\* HashMap::new / with_capacity: no entries.
EmptyMap == [k \in {} |-> 0]

\* HashMap::remove: the map without the entry of k.
MapRemove(m, k) == [j \in (DOMAIN m) \ {k} |-> m[j]]

\* HashMap::insert: k is mapped to i, replacing an entry of k.
MapInsert(m, k, i) == [j \in (DOMAIN m) \cup {k} |-> IF j = k THEN i ELSE m[j]]

\* Vec::swap_remove(i) for i < len: the last element takes slot i and the
\* vector shrinks by one.
swap_remove(s, i) ==
    LET last == s[Len(s)]
        shrunk == SubSeq(s, 1, Len(s) - 1)
    IN  IF i = Len(s) - 1 THEN shrunk ELSE [shrunk EXCEPT ![i + 1] = last]

----------------------------------------------------------------------------
\* Table's methods as functions of the table t.  A method that changes the
\* table yields the new table, what it returns and whether it panicked.

\* Table::with_capacity: the capacity pre-sizes the storage and has no effect
\* on the contents.
with_capacity(capacity) == [map |-> EmptyMap, data |-> <<>>, reverse |-> <<>>]

\* Table::default
default == with_capacity(32)

\* Table::count
count(t) == Len(t.data)

\* values that iterates data from the last slot to the first.
values_rev(t) == [i \in 1..Len(t.data) |-> t.data[Len(t.data) + 1 - i]]

\* Table::values: the values in slot order.
values(t) == t.data

\* Table::keys: the keys of the map (order unspecified).
keys(t) == DOMAIN t.map

\* Table::get.  The outcomes of the call as a set: get_unchecked on a slot
\* outside the vector is undefined behaviour, which may read any value or
\* crash.
get(t, key) ==
    IF key \in DOMAIN t.map
    THEN LET index == t.map[key]
         IN  IF index < Len(t.data)
             THEN {Some(t.data[index + 1])}
             ELSE {Some(v) : v \in Values} \cup {Panic}
    ELSE {None}

\* get_mut that hands out the last value of data (data.last_mut()) for a
\* key of map.
get_mut_last(t, key, value) ==
    IF key \in DOMAIN t.map
    THEN IF Len(t.data) > 0
         THEN {[table |-> [t EXCEPT !.data[Len(t.data)] = value],
                ret |-> Some(value), panic |-> FALSE]}
         ELSE {[table |-> t, ret |-> Panic, panic |-> TRUE]}
    ELSE {[table |-> t, ret |-> None, panic |-> FALSE]}

\* Table::get_mut followed by the caller's write of value through the
\* returned reference.  The outcomes as a set: a write through
\* get_unchecked_mut outside the vector is undefined behaviour, which may
\* land in memory the table does not read or crash.
get_mut(t, key, value) ==
    IF key \in DOMAIN t.map
    THEN LET index == t.map[key]
         IN  IF index < Len(t.data)
             THEN {[table |-> [t EXCEPT !.data[index + 1] = value],
                    ret |-> Some(value), panic |-> FALSE]}
             ELSE {[table |-> t, ret |-> Some(value), panic |-> FALSE],
                   [table |-> t, ret |-> Panic, panic |-> TRUE]}
    ELSE {[table |-> t, ret |-> None, panic |-> FALSE]}

\* remove without the repair of the moved key's slot.
remove_noRepair(t, key) ==
    IF key \in DOMAIN t.map
    THEN LET index == t.map[key]
             t1 == [t EXCEPT !.map = MapRemove(t.map, key)]
         IN  IF index >= Len(t.data) \/ index >= Len(t.reverse)
             THEN [table |-> t1, ret |-> Panic, panic |-> TRUE]
             ELSE [table |-> [t1 EXCEPT !.data = swap_remove(t.data, index),
                                        !.reverse = swap_remove(t.reverse, index)],
                   ret |-> Some(t.data[index + 1]), panic |-> FALSE]
    ELSE [table |-> t, ret |-> None, panic |-> FALSE]

\* remove that looks the slot up with map.get and leaves the entry in map.
remove_keepsEntry(t, key) ==
    IF key \in DOMAIN t.map
    THEN LET index == t.map[key]
         IN  IF index >= Len(t.data) \/ index >= Len(t.reverse)
             THEN [table |-> t, ret |-> Panic, panic |-> TRUE]
             ELSE LET pre_move_index == t.reverse[Len(t.reverse)]
                      reverse1 == swap_remove(t.reverse, index)
                      t3 == [t EXCEPT !.data = swap_remove(t.data, index),
                                      !.reverse = reverse1]
                  IN  IF index < Len(reverse1) /\ pre_move_index \in DOMAIN t.map
                      THEN [table |-> [t3 EXCEPT !.map[pre_move_index] = index],
                            ret |-> Some(t.data[index + 1]), panic |-> FALSE]
                      ELSE [table |-> t3, ret |-> Some(t.data[index + 1]),
                            panic |-> FALSE]
    ELSE [table |-> t, ret |-> None, panic |-> FALSE]

\* remove that swaps the last value into the slot but does not shrink data.
remove_noTruncate(t, key) ==
    IF key \in DOMAIN t.map
    THEN LET index == t.map[key]
             map1 == MapRemove(t.map, key)
             t1 == [t EXCEPT !.map = map1]
         IN  IF index >= Len(t.data) \/ index >= Len(t.reverse)
             THEN [table |-> t1, ret |-> Panic, panic |-> TRUE]
             ELSE LET pre_move_index == t.reverse[Len(t.reverse)]
                      reverse1 == swap_remove(t.reverse, index)
                      t3 == [t1 EXCEPT !.data[index + 1] = t.data[Len(t.data)],
                                       !.reverse = reverse1]
                  IN  IF index < Len(reverse1) /\ pre_move_index \in DOMAIN map1
                      THEN [table |-> [t3 EXCEPT !.map[pre_move_index] = index],
                            ret |-> Some(t.data[index + 1]), panic |-> FALSE]
                      ELSE [table |-> t3, ret |-> Some(t.data[index + 1]),
                            panic |-> FALSE]
    ELSE [table |-> t, ret |-> None, panic |-> FALSE]

\* remove that pops reverse instead of swap-removing slot index from it.
remove_reversePop(t, key) ==
    IF key \in DOMAIN t.map
    THEN LET index == t.map[key]
             map1 == MapRemove(t.map, key)
             t1 == [t EXCEPT !.map = map1]
         IN  IF index >= Len(t.data) \/ index >= Len(t.reverse)
             THEN [table |-> t1, ret |-> Panic, panic |-> TRUE]
             ELSE LET pre_move_index == t.reverse[Len(t.reverse)]
                      reverse1 == SubSeq(t.reverse, 1, Len(t.reverse) - 1)
                      t3 == [t1 EXCEPT !.data = swap_remove(t.data, index),
                                       !.reverse = reverse1]
                  IN  IF index < Len(reverse1) /\ pre_move_index \in DOMAIN map1
                      THEN [table |-> [t3 EXCEPT !.map[pre_move_index] = index],
                            ret |-> Some(t.data[index + 1]), panic |-> FALSE]
                      ELSE [table |-> t3, ret |-> Some(t.data[index + 1]),
                            panic |-> FALSE]
    ELSE [table |-> t, ret |-> None, panic |-> FALSE]

\* remove that pops data instead of swap-removing slot index from it.
remove_popsData(t, key) ==
    IF key \in DOMAIN t.map
    THEN LET index == t.map[key]
             map1 == MapRemove(t.map, key)
             t1 == [t EXCEPT !.map = map1]
         IN  IF index >= Len(t.data) \/ index >= Len(t.reverse)
             THEN [table |-> t1, ret |-> Panic, panic |-> TRUE]
             ELSE LET pre_move_index == t.reverse[Len(t.reverse)]
                      reverse1 == swap_remove(t.reverse, index)
                      t3 == [t1 EXCEPT !.data = SubSeq(t.data, 1, Len(t.data) - 1),
                                       !.reverse = reverse1]
                  IN  IF index < Len(reverse1) /\ pre_move_index \in DOMAIN map1
                      THEN [table |-> [t3 EXCEPT !.map[pre_move_index] = index],
                            ret |-> Some(t.data[Len(t.data)]), panic |-> FALSE]
                      ELSE [table |-> t3, ret |-> Some(t.data[Len(t.data)]),
                            panic |-> FALSE]
    ELSE [table |-> t, ret |-> None, panic |-> FALSE]

\* remove that uses the order-preserving Vec::remove on data and reverse and
\* moves every key behind the slot one slot down.
remove_shift(t, key) ==
    IF key \in DOMAIN t.map
    THEN LET index == t.map[key]
             map1 == MapRemove(t.map, key)
             cut(s) == SubSeq(s, 1, index) \o SubSeq(s, index + 2, Len(s))
         IN  IF index >= Len(t.data) \/ index >= Len(t.reverse)
             THEN [table |-> [t EXCEPT !.map = map1], ret |-> Panic, panic |-> TRUE]
             ELSE [table |-> [map |-> [j \in DOMAIN map1 |->
                                          IF map1[j] > index THEN map1[j] - 1
                                                             ELSE map1[j]],
                              data |-> cut(t.data),
                              reverse |-> cut(t.reverse)],
                   ret |-> Some(t.data[index + 1]), panic |-> FALSE]
    ELSE [table |-> t, ret |-> None, panic |-> FALSE]

\* Table::remove
remove(t, key) ==
    IF key \in DOMAIN t.map
    THEN LET index == t.map[key]
             map1 == MapRemove(t.map, key)
             t1 == [t EXCEPT !.map = map1]
         IN  IF index >= Len(t.data)
             THEN \* data.swap_remove(index) panics
                  [table |-> t1, ret |-> Panic, panic |-> TRUE]
             ELSE
             LET value == t.data[index + 1]
                 t2 == [t1 EXCEPT !.data = swap_remove(t.data, index)]
             IN  IF Len(t.reverse) = 0 \/ index >= Len(t.reverse)
                 THEN \* reverse[len - 1] or reverse.swap_remove(index) panics
                      [table |-> t2, ret |-> Panic, panic |-> TRUE]
                 ELSE
                 LET pre_move_index == t.reverse[Len(t.reverse)]
                     reverse1 == swap_remove(t.reverse, index)
                     t3 == [t2 EXCEPT !.reverse = reverse1]
                 IN  IF index < Len(reverse1)
                     THEN IF pre_move_index \in DOMAIN map1
                          THEN [table |-> [t3 EXCEPT !.map[pre_move_index] = index],
                                ret |-> Some(value), panic |-> FALSE]
                          ELSE \* unwrap() of None panics
                               [table |-> t3, ret |-> Panic, panic |-> TRUE]
                     ELSE [table |-> t3, ret |-> Some(value), panic |-> FALSE]
    ELSE [table |-> t, ret |-> None, panic |-> FALSE]

\* add_with_key without the removal of the key's previous value.
add_with_key_noRemove(t, key, value) ==
    LET data1 == Append(t.data, value)
    IN  [table |-> [map |-> MapInsert(t.map, key, Len(data1) - 1),
                    data |-> data1,
                    reverse |-> Append(t.reverse, key)],
         ret |-> Unit, panic |-> FALSE]

\* add_with_key that takes data.len() for the slot of the pushed value.
add_with_key_indexLen(t, key, value) ==
    LET r == remove(t, key)
    IN  IF r.panic
        THEN [table |-> r.table, ret |-> Panic, panic |-> TRUE]
        ELSE LET data1 == Append(r.table.data, value)
             IN  [table |-> [map |-> MapInsert(r.table.map, key, Len(data1)),
                             data |-> data1,
                             reverse |-> Append(r.table.reverse, key)],
                  ret |-> Unit, panic |-> FALSE]

\* add_with_key that overwrites the slot of a key of map in place and
\* appends only for a new key.
add_with_key_inPlace(t, key, value) ==
    IF key \in DOMAIN t.map /\ t.map[key] < Len(t.data)
    THEN [table |-> [t EXCEPT !.data[t.map[key] + 1] = value],
          ret |-> Unit, panic |-> FALSE]
    ELSE LET data1 == Append(t.data, value)
         IN  [table |-> [map |-> MapInsert(t.map, key, Len(data1) - 1),
                         data |-> data1,
                         reverse |-> Append(t.reverse, key)],
              ret |-> Unit, panic |-> FALSE]

\* add_with_key without the push of the key to reverse.
add_with_key_noReversePush(t, key, value) ==
    LET r == remove(t, key)
    IN  IF r.panic
        THEN [table |-> r.table, ret |-> Panic, panic |-> TRUE]
        ELSE LET data1 == Append(r.table.data, value)
             IN  [table |-> [map |-> MapInsert(r.table.map, key, Len(data1) - 1),
                             data |-> data1,
                             reverse |-> r.table.reverse],
                  ret |-> Unit, panic |-> FALSE]

\* Table::add_with_key
add_with_key(t, key, value) ==
    LET r == remove(t, key)
    IN  IF r.panic
        THEN [table |-> r.table, ret |-> Panic, panic |-> TRUE]
        ELSE LET data1 == Append(r.table.data, value)
                 reverse1 == Append(r.table.reverse, key)
                 index == Len(data1) - 1
             IN  [table |-> [map |-> MapInsert(r.table.map, key, index),
                             data |-> data1,
                             reverse |-> reverse1],
                  ret |-> Unit, panic |-> FALSE]

\* add that draws a second key for its result.
add_otherKey(t, key, value) ==
    LET r == add_with_key(t, key, value)
    IN  [table |-> r.table,
         ret |-> IF r.panic THEN Panic ELSE Some((key % NumKeys) + 1),
         panic |-> r.panic]

\* add that does not insert when the key it drew is a key of map.
add_skipsLive(t, key, value) ==
    IF key \in DOMAIN t.map
    THEN [table |-> t, ret |-> Some(key), panic |-> FALSE]
    ELSE LET r == add_with_key(t, key, value)
         IN  [table |-> r.table,
              ret |-> IF r.panic THEN Panic ELSE Some(key),
              panic |-> r.panic]

\* Table::add, for the key the random source produced.
add(t, key, value) ==
    LET r == add_with_key(t, key, value)
    IN  [table |-> r.table,
         ret |-> IF r.panic THEN Panic ELSE Some(key),
         panic |-> r.panic]

\* clear that leaves the entries of map.
clear_keepsMap(t) == [map |-> t.map, data |-> <<>>, reverse |-> <<>>]

\* clear that leaves the keys of reverse.
clear_keepsReverse(t) == [map |-> EmptyMap, data |-> <<>>, reverse |-> t.reverse]

\* Table::clear
clear(t) == [map |-> EmptyMap, data |-> <<>>, reverse |-> <<>>]

----------------------------------------------------------------------------
\* The log of a run that, from the empty table, has only inserted under
\* pairwise distinct keys and successfully removed: the keys inserted, the
\* number n of insertions and m of successful removes, and, until the first
\* remove, the values inserted in the order of their insertion.  A call that
\* is neither ends the run and the log is dropped.

NoRun == [distinct |-> FALSE, inserted |-> {}, n |-> 0, m |-> 0, order |-> <<>>]

RunInsert(key, value) ==
    IF run.distinct /\ key \notin run.inserted
    THEN [run EXCEPT !.inserted = @ \cup {key}, !.n = @ + 1,
                     !.order = IF run.m = 0 THEN Append(@, value) ELSE @]
    ELSE NoRun

RunRemove(key, r) ==
    IF r.ret = None
    THEN run
    ELSE IF run.distinct /\ r.ret.tag = "Some"
         THEN [run EXCEPT !.m = @ + 1, !.order = <<>>]
         ELSE NoRun

----------------------------------------------------------------------------
Init ==
    /\ map = default.map
    /\ data = default.data
    /\ reverse = default.reverse
    /\ panicked = FALSE
    /\ refmap = EmptyMap
    /\ pre = default
    /\ op = [name |-> "new", key |-> 0, value |-> 0, live |-> FALSE,
             again |-> FALSE, ret |-> Unit]
    /\ run = [distinct |-> TRUE, inserted |-> {}, n |-> 0, m |-> 0, order |-> <<>>]

\* The table becomes r.table; the call is recorded: its name, arguments and
\* result, whether key was live when it was made, and whether it comes
\* right after a call of the same method on the same key that returned
\* something other than None.
Called(name, key, value, r) ==
    /\ map' = r.table.map
    /\ data' = r.table.data
    /\ reverse' = r.table.reverse
    /\ panicked' = r.panic
    /\ pre' = self
    /\ op' = [name |-> name, key |-> key, value |-> value,
              live |-> key \in DOMAIN refmap,
              again |-> (op.name = name /\ op.key = key /\ op.ret # None),
              ret |-> r.ret]

Add ==
    /\ ~panicked
    /\ \E key \in Keys, value \in Values :
          /\ Called("add", key, value, add(self, key, value))
          /\ refmap' = MapInsert(refmap, key, value)
          /\ run' = RunInsert(key, value)

AddWithKey ==
    /\ ~panicked
    /\ \E key \in Keys, value \in Values :
          /\ Called("add_with_key", key, value, add_with_key(self, key, value))
          /\ refmap' = MapInsert(refmap, key, value)
          /\ run' = RunInsert(key, value)

Get ==
    /\ ~panicked
    /\ \E key \in Keys :
          \E ret \in get(self, key) :
              /\ Called("get", key, 0,
                        [table |-> self, ret |-> ret, panic |-> ret = Panic])
              /\ UNCHANGED <<refmap, run>>

GetMut ==
    /\ ~panicked
    /\ \E key \in Keys, value \in Values :
          \E r \in get_mut(self, key, value) :
              /\ Called("get_mut", key, value, r)
              /\ refmap' = IF key \in DOMAIN refmap
                           THEN [refmap EXCEPT ![key] = value]
                           ELSE refmap
              /\ run' = IF r.ret = None THEN run ELSE NoRun

Remove ==
    /\ ~panicked
    /\ \E key \in Keys :
          LET r == remove(self, key)
          IN  /\ Called("remove", key, 0, r)
              /\ refmap' = MapRemove(refmap, key)
              /\ run' = RunRemove(key, r)

Clear ==
    /\ ~panicked
    /\ Called("clear", 0, 0, [table |-> clear(self), ret |-> Unit, panic |-> FALSE])
    /\ refmap' = EmptyMap
    /\ run' = NoRun

Next == Add \/ AddWithKey \/ Get \/ GetMut \/ Remove \/ Clear

Spec == Init /\ [][Next]_vars

----------------------------------------------------------------------------
\* Properties of the table.

\* The keys that are live: inserted and not since removed or cleared.
Live == DOMAIN refmap

\* The last call was a remove of a live key whose value was not in the last
\* slot, so that the last value was moved.
RemovedNonLast ==
    /\ op.name = "remove"
    /\ op.live
    /\ op.ret.tag = "Some"
    /\ pre.map[op.key] < Len(pre.data) - 1

\* C1: after remove(k) of a live key k, get(j) of every other live key j
\* returns what it returned just before the remove, the key of the moved
\* last value included.
C1_SwapCompactionCorrect ==
    (op.name = "remove" /\ op.live) =>
        /\ ~panicked
        /\ \A j \in (DOMAIN pre.map) \ {op.key} :
              /\ get(pre, j) # {None}
              /\ get(self, j) = get(pre, j)

\* A non-last value was removed and at least two keys remain, one of them
\* the moved one.
C1_Witness ==
    /\ RemovedNonLast
    /\ count(self) >= 2
    /\ map[pre.reverse[Len(pre.reverse)]] = pre.map[op.key]

\* C2: get(k) returns Some(v) exactly when the reference map holds k -> v,
\* and None otherwise, after any sequence of calls.
C2_RefinesReferenceMap ==
    \A k \in Keys :
        get(self, k) = {IF k \in DOMAIN refmap THEN Some(refmap[k]) ELSE None}

\* A write through get_mut changed the value of one of several live keys.
C2_Witness ==
    /\ op.name = "get_mut"
    /\ op.live
    /\ data # pre.data
    /\ Cardinality(Live) >= 2
    /\ \E j, k \in Live : refmap[j] # refmap[k]

\* C3: map has an entry for exactly the live keys, and every slot in it is
\* less than data.len(), so the unchecked accesses are in bounds.
C3_IndexExact ==
    /\ DOMAIN map = Live
    /\ \A k \in DOMAIN map : map[k] >= 0 /\ map[k] < Len(data)

\* get has read the value of a live key through get_unchecked while
\* another key was not live.
C3_Witness ==
    /\ op.name = "get"
    /\ op.live
    /\ op.ret.tag = "Some"
    /\ Live # Keys
    /\ count(self) >= 2

\* C4: reverse is the inverse of map: map[reverse[s]] = s for every slot s
\* below count, and reverse[map[k]] = k for every key k of map.
C4_ReverseIsInverse ==
    /\ \A s \in 0..(count(self) - 1) :
          /\ s < Len(reverse)
          /\ reverse[s + 1] \in DOMAIN map
          /\ map[reverse[s + 1]] = s
    /\ \A k \in DOMAIN map :
          /\ map[k] >= 0 /\ map[k] < Len(reverse)
          /\ reverse[map[k] + 1] = k
    /\ \A j, k \in DOMAIN map : map[j] = map[k] => j = k

\* add_with_key has replaced a live key that was not in the last slot, so
\* that both the move and the append have acted on reverse.
C4_Witness ==
    /\ op.name = "add_with_key"
    /\ op.live
    /\ pre.map[op.key] < Len(pre.data) - 1
    /\ count(self) >= 3

\* C5: count() = data.len() = reverse.len() = the number of entries of map.
C5_CountAgrees ==
    /\ count(self) = Len(data)
    /\ Len(data) = Len(reverse)
    /\ Len(reverse) = Cardinality(DOMAIN map)

\* A key was replaced by add, with other keys in the table.
C5_Witness ==
    /\ op.name = "add"
    /\ op.live
    /\ count(self) >= 2

\* C6: right after add(v) returned key k, and right after
\* add_with_key(k, v), get(k) returns Some(v).
C6_RoundTrip ==
    /\ op.name = "add" => op.ret = Some(op.key)
    /\ op.name \in {"add", "add_with_key"} => get(self, op.key) = {Some(op.value)}

\* add inserted a value under a key that was not live, into a table that
\* held a different value.
C6_Witness ==
    /\ op.name = "add"
    /\ ~op.live
    /\ count(pre) >= 1
    /\ \E s \in 1..Len(pre.data) : pre.data[s] # op.value

\* C7: add_with_key(k, v2) on a live key k (such as right after
\* add_with_key(k, v1)) does not panic, leaves count() as it was and
\* makes get(k) return Some(v2).
C7_OverwritePolicy ==
    (op.name = "add_with_key" /\ (op.live \/ op.again)) =>
        /\ ~panicked
        /\ op.ret = Unit
        /\ get(self, op.key) = {Some(op.value)}
        /\ count(self) = count(pre)

\* add_with_key(k, v2) right after add_with_key(k, v1) with v1 # v2.
C7_Witness ==
    /\ op.name = "add_with_key"
    /\ op.again
    /\ op.live
    /\ get(pre, op.key) # {Some(op.value)}
    /\ count(self) >= 2

\* C8: remove(k) of a live key k returns the value get(k) returned just
\* before; afterwards get(k) is None and count() is one less.
C8_RemoveLive ==
    (op.name = "remove" /\ op.live) =>
        /\ op.ret.tag = "Some"
        /\ get(pre, op.key) = {op.ret}
        /\ get(self, op.key) = {None}
        /\ count(self) = count(pre) - 1

\* A live key was removed from a table that held two different values.
C8_Witness ==
    /\ op.name = "remove"
    /\ op.live
    /\ op.ret.tag = "Some"
    /\ \E s \in 1..Len(pre.data) : Some(pre.data[s]) # op.ret

\* C9: get(k) and remove(k) of a key k that is not live return None and
\* leave map, data and reverse as they were; a remove(k) right after a
\* successful remove(k) returns None.
C9_AbsentIsNoOp ==
    /\ (op.name \in {"get", "remove"} /\ ~op.live) =>
          /\ op.ret = None
          /\ self = pre
          /\ ~panicked
    /\ (op.name = "remove" /\ op.again) => op.ret = None

\* The second of two removes of the same key, the first one successful,
\* on a table that is not empty.
C9_Witness ==
    /\ op.name = "remove"
    /\ op.again
    /\ ~op.live
    /\ count(self) >= 1

\* C10: after n insertions under pairwise distinct keys and m successful
\* removes, from the empty table, count() = n - m.
C10_CountInvariant ==
    run.distinct => (run.m <= run.n /\ count(self) = run.n - run.m)

\* A run with several insertions and a remove that leaves a key.
C10_Witness ==
    /\ run.distinct
    /\ run.n >= 2
    /\ run.m >= 1
    /\ run.n - run.m >= 1
    /\ op.name = "remove"

\* The last call was an add that returned a key.
AddReturned == op.name = "add" /\ op.ret.tag = "Some"

\* The keys of t other than k read the same in t and in self.
OthersKept(t, k) ==
    \A j \in keys(t) \ {k} :
        /\ get(t, j) # {None}
        /\ get(self, j) = get(t, j)

Yielded(v) == Cardinality({s \in 1..Len(values(self)) : values(self)[s] = v})
Held(v) == Cardinality({k \in Live : get(self, k) = {Some(v)}})

\* C12: values() yields count() items, and each value as many times as
\* there are live keys that hold it.
C12_IterationComplete ==
    /\ Len(values(self)) = count(self)
    /\ Len(values(self)) = Cardinality(Live)
    /\ \A s \in 1..Len(values(self)) : values(self)[s] \in Values
    /\ \A v \in Values : Yielded(v) = Held(v)

\* After a remove that moved a value, two live keys hold the same value
\* and none holds the value removed.
C12_Witness ==
    /\ RemovedNonLast
    /\ count(self) >= 2
    /\ \E j, k \in Live : j # k /\ refmap[j] = refmap[k]
    /\ Yielded(op.ret.val) = 0

\* C13: keys() yields exactly the live keys, which are the keys get finds,
\* and as many as count().
C13_KeysAreLive ==
    /\ keys(self) = Live
    /\ keys(self) = {k \in Keys : get(self, k) # {None}}
    /\ \A k \in keys(self) : \E v \in Values : get(self, k) = {Some(v)}
    /\ Cardinality(keys(self)) = count(self)

\* A key was removed and another inserted and kept: keys() is neither
\* empty nor every key.
C13_Witness ==
    /\ op.name = "remove"
    /\ op.ret.tag = "Some"
    /\ keys(self) # {}
    /\ op.key \notin keys(self)
    /\ Cardinality(keys(self)) >= 2

\* Invariants (a)-(d) of the table.
TableInvariants ==
    /\ C3_IndexExact
    /\ C4_ReverseIsInverse
    /\ C5_CountAgrees
    /\ C2_RefinesReferenceMap

\* C14: after clear(), count() is 0, get(k) is None for every key, values()
\* and keys() are empty and the table is the one a constructor returns, so
\* that every later call acts as on a new table; the invariants hold.
C14_ClearEmpties ==
    op.name = "clear" =>
        /\ count(self) = 0
        /\ \A k \in Keys : get(self, k) = {None}
        /\ values(self) = <<>>
        /\ keys(self) = {}
        /\ self = default
        /\ ~panicked
        /\ TableInvariants

\* clear was called on a table with several values.
C14_Witness ==
    /\ op.name = "clear"
    /\ count(pre) >= 2
    /\ count(self) = 0

\* C15: values() yields the value of every live key at the key's slot, and
\* after insertions under pairwise distinct keys only, the i-th value
\* yielded is the i-th value inserted.
C15_SlotOrder ==
    /\ \A k \in Live :
          /\ k \in DOMAIN map
          /\ map[k] < Len(values(self))
          /\ values(self)[map[k] + 1] = refmap[k]
    /\ (run.distinct /\ run.m = 0) =>
          /\ Len(run.order) = run.n
          /\ values(self) = run.order

\* Several insertions under distinct keys, of values that differ.
C15_Witness ==
    /\ run.distinct
    /\ run.m = 0
    /\ run.n >= 3
    /\ \E i, j \in 1..Len(run.order) : run.order[i] # run.order[j]

\* C16: a write through get_mut(k) of a live key k changes what get(k)
\* returns and nothing else: map, reverse, count(), every slot and the
\* value of every other key are as before and the invariants hold;
\* get_mut of a key that is not live returns None and changes nothing.
C16_GetMutFrame ==
    op.name = "get_mut" =>
        /\ ~panicked
        /\ TableInvariants
        /\ IF op.live
           THEN /\ op.ret = Some(op.value)
                /\ get(self, op.key) = {Some(op.value)}
                /\ map = pre.map
                /\ reverse = pre.reverse
                /\ count(self) = count(pre)
                /\ OthersKept(pre, op.key)
                /\ \A i \in 1..Len(pre.data) :
                      i # pre.map[op.key] + 1 => data[i] = pre.data[i]
           ELSE /\ op.ret = None
                /\ self = pre

\* get_mut wrote a new value for a live key that is not in the last slot.
C16_Witness ==
    /\ op.name = "get_mut"
    /\ op.live
    /\ pre.map[op.key] < Len(pre.data) - 1
    /\ get(pre, op.key) # {Some(op.value)}
    /\ get(self, op.key) = {Some(op.value)}

\* C17: remove(k) of a key at slot s below the last slot moves the key of
\* the last slot to s and leaves every other remaining key at its slot;
\* with s the last slot no remaining key changes slot.  The values of all
\* slots but s stay in place.
C17_SlotRelocation ==
    (op.name = "remove" /\ op.live) =>
        /\ op.key \in keys(pre)
        /\ Len(pre.reverse) = count(pre)
        /\ count(pre) >= 1
        /\ LET s == pre.map[op.key]
               lastKey == pre.reverse[Len(pre.reverse)]
               moved == IF s < count(pre) - 1 THEN {lastKey} ELSE {}
           IN  /\ keys(self) = keys(pre) \ {op.key}
               /\ \A j \in moved : j \in keys(self) /\ map[j] = s
               /\ \A j \in keys(self) \ moved : map[j] = pre.map[j]
               /\ \A i \in 1..Len(data) :
                     data[i] = IF i = s + 1 THEN pre.data[Len(pre.data)]
                                            ELSE pre.data[i]

\* The key of slot 0 of three was removed: the key of slot 2 moved to slot
\* 0 and the key of slot 1 stayed.
C17_Witness ==
    /\ RemovedNonLast
    /\ count(pre) >= 3
    /\ pre.map[op.key] = 0
    /\ map[pre.reverse[Len(pre.reverse)]] = 0
    /\ map[pre.reverse[2]] = 1

\* C18: after add_with_key(k, v), k is mapped to the last slot and v is the
\* last value of values(); if k was live at a slot s below the last slot,
\* the value of the last slot before the call is at slot s afterwards.
C18_RemoveThenAppend ==
    op.name = "add_with_key" =>
        /\ ~panicked
        /\ count(self) >= 1
        /\ op.key \in DOMAIN map
        /\ map[op.key] = count(self) - 1
        /\ Len(values(self)) = count(self)
        /\ values(self)[Len(values(self))] = op.value
        /\ (op.live /\ pre.map[op.key] < count(pre) - 1) =>
              /\ pre.map[op.key] < Len(values(self))
              /\ values(self)[pre.map[op.key] + 1] = pre.data[Len(pre.data)]

\* add_with_key replaced a live key below the last slot, and the value it
\* replaced, the value of the last slot and the new value are not all equal.
C18_Witness ==
    /\ op.name = "add_with_key"
    /\ op.live
    /\ pre.map[op.key] < Len(pre.data) - 1
    /\ pre.data[Len(pre.data)] # op.value
    /\ pre.data[pre.map[op.key] + 1] # pre.data[Len(pre.data)]

\* C19: remove never faults: for every key of map the slot is below
\* data.len() and reverse.len(), reverse is not empty, and when the slot is
\* not the last one the key of the last slot is another key of map; a
\* remove that was called has not panicked.
C19_RemoveNeverFaults ==
    /\ \A key \in DOMAIN map :
          /\ map[key] < Len(data)
          /\ map[key] < Len(reverse)
          /\ Len(reverse) >= 1
          /\ map[key] < Len(reverse) - 1 =>
                /\ reverse[Len(reverse)] \in DOMAIN map
                /\ reverse[Len(reverse)] # key
    /\ \A key \in Keys : ~remove(self, key).panic
    /\ op.name = "remove" => (~panicked /\ op.ret # Panic)

\* remove took the middle slot of three, so that both swap_remove calls and
\* the repair of map have run.
C19_Witness ==
    /\ RemovedNonLast
    /\ count(pre) >= 3
    /\ pre.map[op.key] = 1
    /\ ~panicked

\* C20: add(value) acts as add_with_key(key, value) for the key it returns;
\* when that key was live its previous value is dropped without a fault,
\* get of the key returns the new value, count() is unchanged and the
\* invariants hold.
C20_AddIsAddWithKey ==
    op.name = "add" =>
        /\ ~panicked
        /\ op.ret.tag = "Some"
        /\ self = add_with_key(pre, op.ret.val, op.value).table
        /\ get(self, op.ret.val) = {Some(op.value)}
        /\ TableInvariants
        /\ op.ret.val \in keys(pre) =>
              /\ count(self) = count(pre)
              /\ Yielded(op.value) >= 1
              /\ OthersKept(pre, op.ret.val)

\* add drew a live key that held another value, in a table with other keys.
C20_Witness ==
    /\ AddReturned
    /\ op.ret.val \in keys(pre)
    /\ count(pre) >= 2
    /\ get(pre, op.ret.val) # {Some(op.value)}

====
